---- MODULE Spec2Model ----
(***************************************************************************)
(* Model of the drum-pattern decoder, src/ch1/decoder.go (Decoder.Decode   *)
(* and its errReader helper).  One Decode call over one input stream.      *)
(*                                                                         *)
(* Bytes are the integers 0..255.  A uint32 is kept as an integer (inputs  *)
(* keep the most significant byte below 128 so the value fits the checker's*)
(* integers).  An int64 is kept as four 16-bit limbs, most significant     *)
(* first, in two's complement, so that header.Size-36 wraps as it does in  *)
(* the program.                                                            *)
(***************************************************************************)
EXTENDS Integers, Sequences, FiniteSets, TLC

VARIABLES
    stream,      \* the bytes the underlying reader d.r delivers
    endErr,      \* what d.r reports once its bytes are used up: "EOF" or "ErrIO"
    chunk,       \* most bytes one d.r.Read call delivers (0: as many as asked for)
    first,       \* the outcome of an earlier Decode call over the same bytes, if any
    off,         \* number of bytes taken from d.r so far
    er,          \* errReader: [limited, N, err]  (er.r is d.r or LimitReader{d.r, N})
    header,      \* header struct: [Splice, Size, Version]
    tempo,       \* float32 bit pattern read after the header
    p,           \* the Pattern under construction
    id,          \* loop local
    len,         \* loop local
    instrument,  \* loop local
    steps,       \* loop local
    pc,          \* position in Decode
    ret          \* what Decode returned: [p, err]

vars == <<stream, endErr, chunk, first, off, er, header, tempo, p, id, len, instrument, steps, pc, ret>>

----------------------------------------------------------------------------
(* Bounds of the explored inputs *)

MaxTracks == 2
MaxNameLen == 1

----------------------------------------------------------------------------
(* Program constants *)

HeaderLen == 46
TempoLen == 4
IdLen == 4
StepsLen == 16
VersionLen == 32
SizeAdjust == 36

SPLICE == <<83, 80, 76, 73, 67, 69>>

Min(a, b) == IF a < b THEN a ELSE b

Zeros(n) == [i \in 1..n |-> 0]

----------------------------------------------------------------------------
(* int64 as four 16-bit limbs, most significant first *)

Int64Zero == <<0, 0, 0, 0>>

Int64Negative(w) == w[1] >= 32768

\* w - k in wrapping 64-bit arithmetic, for 0 <= k < 65536
Int64Sub(w, k) ==
    LET d4 == w[4] - k
        b4 == IF d4 < 0 THEN 1 ELSE 0
        d3 == w[3] - b4
        b3 == IF d3 < 0 THEN 1 ELSE 0
        d2 == w[2] - b3
        b2 == IF d2 < 0 THEN 1 ELSE 0
        d1 == w[1] - b2
    IN  << (d1 + 65536) % 65536, (d2 + 65536) % 65536,
           (d3 + 65536) % 65536, (d4 + 65536) % 65536 >>

\* int64(k) > w, for a w > 0 and 0 <= k < 65536
Int64Below(w, k) == w[1] = 0 /\ w[2] = 0 /\ w[3] = 0 /\ w[4] < k

----------------------------------------------------------------------------
(* encoding/binary byte orders *)

BigEndianInt64(b) ==
    << b[1] * 256 + b[2], b[3] * 256 + b[4], b[5] * 256 + b[6], b[7] * 256 + b[8] >>

\* the id decoded most significant byte first
BigEndianUint32(b) == 16777216 * b[1] + 65536 * b[2] + 256 * b[3] + b[4]

LittleEndianUint32(b) == b[1] + 256 * b[2] + 65536 * b[3] + 16777216 * b[4]

\* math.Float32frombits of the little-endian word: the tempo is kept as its bit pattern
LittleEndianFloat32(b) == b[1] + 256 * b[2] + 65536 * b[3] + 16777216 * b[4]

----------------------------------------------------------------------------
(* strings.TrimRight(s, string(0)) on a byte string *)

\* cutting the string at its first c, as a C string is read
RECURSIVE TrimAtFirst(_, _)
TrimAtFirst(s, c) ==
    IF Len(s) = 0 \/ s[1] = c THEN <<>> ELSE <<s[1]>> \o TrimAtFirst(Tail(s), c)

RECURSIVE TrimRight(_, _)
TrimRight(s, c) ==
    IF Len(s) > 0 /\ s[Len(s)] = c THEN TrimRight(SubSeq(s, 1, Len(s) - 1), c) ELSE s

----------------------------------------------------------------------------
(* The readers *)

\* d.r.Read(buf) with len(buf) = k > 0, at offset o of the stream
UnderlyingRead(o, k) ==
    IF o >= Len(stream)
    THEN [n |-> 0, err |-> endErr]
    ELSE [n |-> Min(IF chunk > 0 THEN Min(k, chunk) ELSE k, Len(stream) - o),
          err |-> "nil"]

\* the limit not enforced: only the end of the stream ends the reads
UnlimitedRead(lim, o, k) ==
    LET x == UnderlyingRead(o, k) IN [n |-> x.n, err |-> x.err, N |-> lim]

\* io.LimitedReader.Read(buf) with len(buf) = k > 0 and N = lim
LimitedRead(lim, o, k) ==
    IF Int64Negative(lim) \/ lim = Int64Zero
    THEN [n |-> 0, err |-> "EOF", N |-> lim]
    ELSE LET k2 == IF Int64Below(lim, k) THEN lim[4] ELSE k
             x  == UnderlyingRead(o, k2)
         IN  [n |-> x.n, err |-> x.err, N |-> Int64Sub(lim, x.n)]

\* er.r.Read(buf): d.r before the limit reader is installed, the limit reader after
ReaderRead(r, o, k) ==
    IF r.limited
    THEN LimitedRead(r.N, o, k)
    ELSE LET x == UnderlyingRead(o, k) IN [n |-> x.n, err |-> x.err, N |-> r.N]

\* one Read call taken for the whole read: a short read is an unexpected end
ReadOnce(r, o, n, e, want) ==
    IF want = 0 THEN [n |-> 0, N |-> r.N, err |-> "nil"]
    ELSE LET x == ReaderRead(r, o, want)
         IN  [n |-> x.n, N |-> x.N,
              err |-> IF x.n >= want THEN "nil"
                      ELSE IF x.err = "nil" \/ (x.n > 0 /\ x.err = "EOF")
                           THEN "ErrUnexpectedEOF"
                      ELSE x.err]

\* the loop of io.ReadAtLeast(r, buf, min) with min = len(buf) = want
RECURSIVE ReadAtLeast(_, _, _, _, _)
ReadAtLeast(r, o, n, e, want) ==
    IF n < want /\ e = "nil"
    THEN LET x == ReaderRead(r, o + n, want - n)
         IN  ReadAtLeast([r EXCEPT !.N = x.N], o, n + x.n, x.err, want)
    ELSE [n |-> n, N |-> r.N,
          err |-> IF n >= want THEN "nil"
                  ELSE IF n > 0 /\ e = "EOF" THEN "ErrUnexpectedEOF"
                  ELSE e]

\* io.ReadFull(er.r, buf) with len(buf) = want, reading at offset o
ReadFull(r, o, want) ==
    LET x == ReadAtLeast(r, o, 0, "nil", want)
    IN  [n |-> x.n, N |-> x.N, err |-> x.err, data |-> SubSeq(stream, o + 1, o + x.n)]

\* an errReader whose calls read on after a failure
NeverLatched(e) == FALSE

\* whether a call on the errReader skips the read (an error is latched)
Latched(e) == e # "nil"

\* errReader.read(order, data) for a datum of k bytes: the new errReader, the new
\* offset, the bytes for the caller to decode (none on failure) and the returned error
read(k) ==
    IF Latched(er.err)
    THEN [er |-> er, off |-> off, data |-> <<>>, err |-> er.err]
    ELSE LET x == ReadFull(er, off, k)
         IN  [er |-> [limited |-> er.limited, N |-> x.N, err |-> x.err],
              off |-> off + x.n,
              data |-> IF x.err = "nil" THEN x.data ELSE <<>>,
              err |-> x.err]

\* errReader.readFull(buf) with len(buf) = k: buf keeps whatever was read into it
readFull(k) ==
    IF Latched(er.err)
    THEN [er |-> er, off |-> off, buf |-> Zeros(k), err |-> er.err]
    ELSE LET x == ReadFull(er, off, k)
         IN  [er |-> [limited |-> er.limited, N |-> x.N, err |-> x.err],
              off |-> off + x.n,
              buf |-> x.data \o Zeros(k - x.n),
              err |-> x.err]

----------------------------------------------------------------------------
(* The Pattern and the values Decode returns *)

NilPattern == [nil |-> TRUE, Version |-> <<>>, Tempo |-> 0, Tracks |-> <<>>]

\* &Pattern{Version: version, Tempo: tempo, Tracks: []Track{}}
NewPattern(version, t) == [nil |-> FALSE, Version |-> version, Tempo |-> t, Tracks |-> <<>>]

\* Track{ID: id, Instrument: string(instrument), Steps: steps}
Track(i, ins, st) == [ID |-> i, Instrument |-> ins, Steps |-> st]

\* the new track put in front of the others
PrependTrack(tracks, t) == <<t>> \o tracks

\* the new track written over the last one
ReplaceLast(tracks, t) ==
    IF Len(tracks) = 0 THEN <<t>> ELSE [tracks EXCEPT ![Len(tracks)] = t]

\* p.Tracks = append(p.Tracks, t)
AppendTrack(tracks, t) == Append(tracks, t)

\* return p, err
PartialResult(pat, e) == [p |-> pat, err |-> e]

\* return nil, err
FailResult(pat, e) == [p |-> NilPattern, err |-> e]

\* return p, nil
OkResult(pat) == [p |-> pat, err |-> "nil"]

NoResult == [p |-> NilPattern, err |-> "nil"]

\* er := errReader{d.r, nil}
NewErrReader == [limited |-> FALSE, N |-> Int64Zero, err |-> "nil"]

\* var header struct{...}
ZeroHeader == [Splice |-> Zeros(6), Size |-> Int64Zero, Version |-> Zeros(VersionLen)]

\* no earlier call
NoCall == [done |-> FALSE, pc |-> "", ret |-> NoResult, off |-> 0]

\* only the first byte of the tag compared
FirstByteMismatch(splice) == splice[1] # SPLICE[1]

\* string(header.Splice[:]) != "SPLICE"
TagMismatch(splice) == splice # SPLICE

\* the tag compared before er.err is looked at
TagFirstOutcome(e, splice) ==
    IF splice # SPLICE THEN "invalid"
    ELSE IF e # "nil" THEN "error"
    ELSE "ok"

\* the switch after the two header reads
HeaderOutcome(e, splice) ==
    IF e # "nil" THEN "error"
    ELSE IF TagMismatch(splice) THEN "invalid"
    ELSE "ok"

\* any end of input, clean or not, taken as the end of the tracks
AnyEOFOutcome(e) ==
    IF e \in {"EOF", "ErrUnexpectedEOF"} THEN "done"
    ELSE IF e # "nil" THEN "error"
    ELSE "ok"

\* the cases of the switch in the other order: io.EOF is an error like any other
ErrorFirstOutcome(e) ==
    IF e # "nil" THEN "error"
    ELSE IF e = "EOF" THEN "done"
    ELSE "ok"

\* the switch after the read of the track id
IdOutcome(e) ==
    IF e = "EOF" THEN "done"
    ELSE IF e # "nil" THEN "error"
    ELSE "ok"

\* an end of input inside a record not taken as a failure
FailedUnlessEOF(e) == e \notin {"nil", "EOF", "ErrUnexpectedEOF"}

\* if er.err != nil, after the reads of one track record
TrackFailed(e) == e # "nil"

\* io.LimitReader(d.r, header.Size-36)
LimitReader(size) == [limited |-> TRUE, N |-> Int64Sub(size, SizeAdjust)]

----------------------------------------------------------------------------
(* The input streams explored *)

Pad(s, n) == s \o Zeros(n - Len(s))

Tags == { SPLICE, <<83, 80, 76, 73, 67, 88>>, <<88, 80, 76, 73, 67, 69>> }

VersionSlots ==
    { Pad(<<48, 46, 56, 48, 56, 45, 97, 108, 112, 104, 97>>, VersionLen),
      Zeros(VersionLen),
      [i \in 1..VersionLen |-> 64 + i],
      Pad(<<48, 0, 49>>, VersionLen),
      Pad(<<0, 49>>, VersionLen) }

DefaultVersion == Pad(<<48, 46, 56, 48, 56, 45, 97, 108, 112, 104, 97>>, VersionLen)

TempoFields == { <<0, 0, 240, 66>>, <<205, 204, 196, 66>> }

DefaultTempo == <<0, 0, 240, 66>>

\* the 8 bytes of a size field holding the small value v
SizeField(v) == <<0, 0, 0, 0, 0, 0, v \div 256, v % 256>>

\* size fields whose value is negative, wraps when 36 is subtracted, or is huge
OddSizeFields ==
    { <<255, 255, 255, 255, 255, 255, 255, 255>>,
      <<255, 255, 255, 255, 255, 255, 255, 220>>,
      <<128, 0, 0, 0, 0, 0, 0, 0>>,
      <<128, 0, 0, 0, 0, 0, 0, 35>>,
      <<127, 255, 255, 255, 255, 255, 255, 255>>,
      <<57, 0, 0, 0, 0, 0, 0, 0>> }

SizeFields(payloadLen) ==
    { SizeField(v) : v \in {0, 35, 36, 38, 40, 41, 57, 58, 66, 313,
                            36 + payloadLen, 57 + payloadLen} }
    \cup OddSizeFields

\* the k-th track record on the wire, with an instrument name of n bytes
IdField(k) == IF k % 2 = 1 THEN <<1, 0, 0, 0>> ELSE <<2, 1, 0, 127>>
StepsField(k) ==
    IF k % 2 = 1 THEN <<1, 0, 0, 0, 1, 0, 0, 0, 1, 0, 0, 0, 1, 0, 0, 0>>
    ELSE <<0, 0, 0, 0, 2, 0, 0, 0, 0, 0, 0, 0, 255, 0, 0, 3>>
NameField(n) == [i \in 1..n |-> 96 + i]
Record(k, n) == IdField(k) \o <<n>> \o NameField(n) \o StepsField(k)

\* the payloads of exactly m records, then of at most m records
RECURSIVE PayloadsOf(_)
PayloadsOf(m) ==
    IF m = 0 THEN { <<>> }
    ELSE { pl \o Record(m, n) : pl \in PayloadsOf(m - 1), n \in 0..MaxNameLen }

Payloads(m) == UNION { PayloadsOf(k) : k \in 0..m }

Start(tag, size, version, tmp, payload, cut, e) ==
    /\ stream = SubSeq(tag \o size \o version \o tmp \o payload, 1, cut)
    /\ endErr = e
    /\ chunk = 0
    /\ first = NoCall
    /\ off = 0
    /\ er = NewErrReader
    /\ header = ZeroHeader
    /\ tempo = 0
    /\ p = NilPattern
    /\ id = 0
    /\ len = 0
    /\ instrument = <<>>
    /\ steps = <<>>
    /\ pc = "ReadHeader"
    /\ ret = NoResult

Init ==
    \/ \E tag \in Tags, version \in VersionSlots, tmp \in TempoFields,
          payload \in PayloadsOf(1), e \in {"EOF", "ErrIO"} :
         \E size \in { SizeField(36 + Len(payload)), SizeField(0),
                       <<255, 255, 255, 255, 255, 255, 255, 255>> },
            cut \in 0..(HeaderLen + TempoLen + Len(payload)) :
              Start(tag, size, version, tmp, payload, cut, e)
    \/ \E payload \in Payloads(MaxTracks), e \in {"EOF", "ErrIO"} :
         \E size \in SizeFields(Len(payload)),
            cut \in (HeaderLen + TempoLen)..(HeaderLen + TempoLen + Len(payload)) :
              Start(SPLICE, size, DefaultVersion, DefaultTempo, payload, cut, e)

----------------------------------------------------------------------------
(* Decode, statement by statement *)

\* er.read(binary.BigEndian, &header)
ReadHeader ==
    /\ pc = "ReadHeader"
    /\ LET x == read(HeaderLen)
       IN  /\ er' = x.er
           /\ off' = x.off
           /\ header' = IF x.err = "nil"
                        THEN [Splice |-> SubSeq(x.data, 1, 6),
                              Size |-> BigEndianInt64(SubSeq(x.data, 7, 14)),
                              Version |-> SubSeq(x.data, 15, HeaderLen)]
                        ELSE header
    /\ pc' = "ReadTempo"
    /\ UNCHANGED <<stream, endErr, chunk, first, tempo, p, id, len, instrument, steps, ret>>

\* er.read(binary.LittleEndian, &tempo)
ReadTempo ==
    /\ pc = "ReadTempo"
    /\ LET x == read(TempoLen)
       IN  /\ er' = x.er
           /\ off' = x.off
           /\ tempo' = IF x.err = "nil" THEN LittleEndianFloat32(x.data) ELSE tempo
    /\ pc' = "CheckHeader"
    /\ UNCHANGED <<stream, endErr, chunk, first, header, p, id, len, instrument, steps, ret>>

\* the switch on er.err and the tag; then the version, the limit reader, the Pattern
CheckHeader ==
    /\ pc = "CheckHeader"
    /\ LET o == HeaderOutcome(er.err, header.Splice)
       IN  IF o = "error"
           THEN /\ ret' = FailResult(p, er.err)
                /\ pc' = "Failed"
                /\ UNCHANGED <<er, p>>
           ELSE IF o = "invalid"
           THEN /\ ret' = FailResult(p, "InvalidHeader")
                /\ pc' = "Failed"
                /\ UNCHANGED <<er, p>>
           ELSE /\ er' = [limited |-> LimitReader(header.Size).limited,
                           N |-> LimitReader(header.Size).N,
                           err |-> er.err]
                /\ p' = NewPattern(TrimRight(header.Version, 0), tempo)
                /\ pc' = "ReadingID"
                /\ UNCHANGED ret
    /\ UNCHANGED <<stream, endErr, chunk, first, off, header, tempo, id, len, instrument, steps>>

\* var id uint32; err := er.read(binary.LittleEndian, &id); switch on err
ReadID ==
    /\ pc = "ReadingID"
    /\ LET x == read(IdLen)
           o == IdOutcome(x.err)
       IN  /\ er' = x.er
           /\ off' = x.off
           /\ IF o = "done"
              THEN /\ ret' = OkResult(p)
                   /\ pc' = "Done"
                   /\ id' = 0
              ELSE IF o = "error"
              THEN /\ ret' = FailResult(p, x.err)
                   /\ pc' = "Failed"
                   /\ id' = 0
              ELSE /\ id' = LittleEndianUint32(x.data)
                   /\ pc' = "ReadingLength"
                   /\ UNCHANGED ret
    /\ UNCHANGED <<stream, endErr, chunk, first, header, tempo, p, len, instrument, steps>>

\* var len byte; er.read(binary.LittleEndian, &len)
ReadLength ==
    /\ pc = "ReadingLength"
    /\ LET x == read(1)
       IN  /\ er' = x.er
           /\ off' = x.off
           /\ len' = IF x.err = "nil" THEN x.data[1] ELSE 0
    /\ pc' = "ReadingName"
    /\ UNCHANGED <<stream, endErr, chunk, first, header, tempo, p, id, instrument, steps, ret>>

\* instrument := make([]byte, len); steps := make([]byte, 16); er.readFull(instrument)
ReadName ==
    /\ pc = "ReadingName"
    /\ LET x == readFull(len)
       IN  /\ er' = x.er
           /\ off' = x.off
           /\ instrument' = x.buf
    /\ steps' = Zeros(StepsLen)
    /\ pc' = "ReadingSteps"
    /\ UNCHANGED <<stream, endErr, chunk, first, header, tempo, p, id, len, ret>>

\* er.readFull(steps)
ReadSteps ==
    /\ pc = "ReadingSteps"
    /\ LET x == readFull(StepsLen)
       IN  /\ er' = x.er
           /\ off' = x.off
           /\ steps' = x.buf
    /\ pc' = "CheckTrack"
    /\ UNCHANGED <<stream, endErr, chunk, first, header, tempo, p, id, len, instrument, ret>>

\* if er.err != nil { return nil, er.err }; p.Tracks = append(p.Tracks, t)
CheckTrack ==
    /\ pc = "CheckTrack"
    /\ IF TrackFailed(er.err)
       THEN /\ ret' = FailResult(p, er.err)
            /\ pc' = "Failed"
            /\ UNCHANGED p
       ELSE /\ p' = [p EXCEPT !.Tracks = AppendTrack(p.Tracks, Track(id, instrument, steps))]
            /\ pc' = "ReadingID"
            /\ UNCHANGED ret
    /\ id' = 0
    /\ len' = 0
    /\ instrument' = <<>>
    /\ steps' = <<>>
    /\ UNCHANGED <<stream, endErr, chunk, first, off, er, header, tempo>>

Next ==
    \/ ReadHeader
    \/ ReadTempo
    \/ CheckHeader
    \/ ReadID
    \/ ReadLength
    \/ ReadName
    \/ ReadSteps
    \/ CheckTrack

Spec == Init /\ [][Next]_vars

\* how a second stream over the same bytes may deliver them: whole, or in pieces
SecondChunks == {0, 7}

\* NewDecoder(r2).Decode() once a first Decode has returned, r2 a fresh reader over
\* the same bytes: every variable of Decode is a local, created anew by the call
DecodeAgain ==
    /\ pc \in {"Done", "Failed"}
    /\ ~first.done
    /\ first' = [done |-> TRUE, pc |-> pc, ret |-> ret, off |-> off]
    /\ chunk' \in SecondChunks
    /\ off' = 0
    /\ er' = NewErrReader
    /\ header' = ZeroHeader
    /\ tempo' = 0
    /\ p' = NilPattern
    /\ id' = 0
    /\ len' = 0
    /\ instrument' = <<>>
    /\ steps' = <<>>
    /\ pc' = "ReadHeader"
    /\ ret' = NoResult
    /\ UNCHANGED <<stream, endErr>>

NextTwice ==
    \/ Next
    \/ DecodeAgain

\* two Decode calls, one after the other, over streams delivering the same bytes
SpecTwice == Init /\ [][NextTwice]_vars

TypeOK ==
    /\ pc \in {"ReadHeader", "ReadTempo", "CheckHeader", "ReadingID", "ReadingLength",
               "ReadingName", "ReadingSteps", "CheckTrack", "Done", "Failed"}
    /\ er.err \in {"nil", "EOF", "ErrUnexpectedEOF", "ErrIO"}
    /\ off \in 0..Len(stream)

----------------------------------------------------------------------------
(* What the claims speak of, read off the raw input stream *)

PrefixLen == HeaderLen + TempoLen

InLoop == pc \in {"ReadingID", "ReadingLength", "ReadingName", "ReadingSteps", "CheckTrack"}

ReadErrors == {"EOF", "ErrUnexpectedEOF", "ErrIO"}

\* the stream holds the whole header and tempo
PrefixReadable == Len(stream) >= PrefixLen

StreamTag == SubSeq(stream, 1, 6)

StreamVersionSlot == SubSeq(stream, 15, HeaderLen)

ValidHeader == PrefixReadable /\ StreamTag = SPLICE

\* the size field holds a value below 65536 (its six high bytes are zero)
SmallSizeField == \A i \in 7..12 : stream[i] = 0

\* that value, most significant byte first
DeclaredSize == 256 * stream[13] + stream[14]

\* the size field is negative as a signed 64-bit number
DeclaredNegative == stream[7] >= 128

\* a negative size so low that subtracting 36 wraps to a huge positive number
WrapsPositive ==
    /\ stream[7] = 128
    /\ \A i \in 8..13 : stream[i] = 0
    /\ stream[14] < SizeAdjust

\* payload bytes the stream holds after the header and tempo
PayloadAvail == Len(stream) - PrefixLen

\* payload bytes taken from the stream so far
PayloadTaken == IF off > PrefixLen THEN off - PrefixLen ELSE 0

\* length of the payload Decode can see: the declared region cut at the stream's end
RegionLen ==
    IF SmallSizeField
    THEN Min(IF DeclaredSize > SizeAdjust THEN DeclaredSize - SizeAdjust ELSE 0, PayloadAvail)
    ELSE IF DeclaredNegative /\ ~WrapsPositive THEN 0
    ELSE PayloadAvail

Region == SubSeq(stream, PrefixLen + 1, PrefixLen + RegionLen)

\* the track records of a byte string, read off the wire layout:
\* ok says the string is a whole number of records
RECURSIVE RefParse(_)
RefParse(b) ==
    IF Len(b) = 0 THEN [ok |-> TRUE, tracks |-> <<>>]
    ELSE IF Len(b) < 5 \/ Len(b) < 5 + b[5] + 16 THEN [ok |-> FALSE, tracks |-> <<>>]
    ELSE LET n == b[5]
             t == [ID |-> b[1] + 256 * b[2] + 65536 * b[3] + 16777216 * b[4],
                   Instrument |-> SubSeq(b, 6, 5 + n),
                   Steps |-> SubSeq(b, 6 + n, 21 + n)]
             rest == RefParse(SubSeq(b, 22 + n, Len(b)))
         IN  [ok |-> rest.ok, tracks |-> <<t>> \o rest.tracks]

\* bytes on the wire of the first k tracks of a track list
RECURSIVE WireLen(_, _)
WireLen(tracks, k) ==
    IF k = 0 THEN 0
    ELSE WireLen(tracks, k - 1) + IdLen + 1 + Len(tracks[k].Instrument) + StepsLen

IsPrefix(a, b) == Len(a) <= Len(b) /\ a = SubSeq(b, 1, Len(a))

----------------------------------------------------------------------------
\* C1: when the 50 bytes of header and tempo can be read and the first 6 bytes are not
\* "SPLICE", Decode never enters the track loop, never succeeds, and what it returns
\* is the InvalidHeader error with no Pattern, whatever else the stream holds.
C1_InvalidHeader ==
    (PrefixReadable /\ StreamTag # SPLICE) =>
        /\ ~InLoop
        /\ pc # "Done"
        /\ pc = "Failed" => ret = [p |-> NilPattern, err |-> "InvalidHeader"]

C1_Witness ==
    /\ pc = "Failed"
    /\ Len(stream) > PrefixLen
    /\ StreamTag # SPLICE
    /\ StreamTag[1] = SPLICE[1]
    /\ ret.err = "InvalidHeader"

\* C2: when the read of the header or of the tempo fails, Decode returns that read
\* error and no Pattern, never InvalidHeader; InvalidHeader is returned only when
\* both reads went through without error (all 50 bytes taken).
C2_ReadErrorFirst ==
    /\ ~PrefixReadable =>
          /\ ~InLoop
          /\ pc # "Done"
          /\ pc = "Failed" =>
                /\ ret.err \in ReadErrors
                /\ ret.err = er.err
                /\ ret.p = NilPattern
    /\ ret.err = "InvalidHeader" => (er.err = "nil" /\ off = PrefixLen)

C2_Witness ==
    /\ pc = "Failed"
    /\ Len(stream) >= HeaderLen
    /\ ~PrefixReadable
    /\ header.Splice = StreamTag
    /\ StreamTag # SPLICE
    /\ ret.err \in ReadErrors

\* C7: Decode returns either the complete Pattern with a nil error, or no Pattern with
\* a non-nil error, whatever number of tracks had been appended; before it returns
\* nothing is returned.
C7_AllOrNothing ==
    /\ pc = "Done" => (ret.err = "nil" /\ ~ret.p.nil /\ ret.p = p)
    /\ pc = "Failed" => (ret.err # "nil" /\ ret.p = NilPattern)
    /\ pc \notin {"Done", "Failed"} => ret = NoResult

C7_Witness ==
    /\ pc = "Failed"
    /\ Len(p.Tracks) >= 1
    /\ ret.p = NilPattern
    /\ ret.err \in ReadErrors

\* C9: the version of the Pattern is the version slot (bytes 14..45 of the stream)
\* without its maximal run of trailing zero bytes: a prefix of the slot, followed in
\* the slot by zero bytes only, not ending in a zero byte; 32 zero bytes give the
\* empty version and a slot not ending in zero gives all 32 bytes.
C9_VersionTrimmed ==
    ~p.nil =>
        LET v == p.Version
            slot == StreamVersionSlot
        IN  /\ Len(v) <= VersionLen
            /\ v = SubSeq(slot, 1, Len(v))
            /\ \A i \in (Len(v) + 1)..VersionLen : slot[i] = 0
            /\ Len(v) > 0 => v[Len(v)] # 0
            /\ (\A i \in 1..VersionLen : slot[i] = 0) => v = <<>>
            /\ slot[VersionLen] # 0 => v = slot
            /\ pc = "Done" => ret.p.Version = v

C9_Witness ==
    /\ pc = "Done"
    /\ ret.p.Version = <<48, 0, 49>>
    /\ StreamVersionSlot[4] = 0

\* C3 (as stated): with a valid header the payload bytes taken never exceed
\* total_size - 36, and a successful Decode has taken exactly total_size - 36.
C3_ExactlyDeclared ==
    (ValidHeader /\ SmallSizeField /\ er.limited) =>
        /\ PayloadTaken <= DeclaredSize - SizeAdjust
        /\ pc = "Done" => PayloadTaken = DeclaredSize - SizeAdjust

\* C4: when the bounded region (total_size - 36 bytes, all present in the stream) is
\* K whole track records back to back, Decode does not fail, the tracks appended so
\* far are always the first records on the wire, and the returned Pattern has exactly
\* the K tracks with the id, instrument and steps of the records, in wire order.
C4_KRecords ==
    ( /\ ValidHeader
      /\ SmallSizeField
      /\ DeclaredSize >= SizeAdjust
      /\ PayloadAvail >= DeclaredSize - SizeAdjust
      /\ RefParse(Region).ok ) =>
        /\ pc # "Failed"
        /\ IsPrefix(p.Tracks, RefParse(Region).tracks)
        /\ pc = "Done" => (ret.err = "nil" /\ ret.p.Tracks = RefParse(Region).tracks)

C4_Witness ==
    /\ pc = "Done"
    /\ ValidHeader
    /\ SmallSizeField
    /\ DeclaredSize >= SizeAdjust
    /\ PayloadAvail >= DeclaredSize - SizeAdjust
    /\ RefParse(Region).ok
    /\ Len(ret.p.Tracks) = 2
    /\ ret.p.Tracks[1].ID = 1
    /\ ret.p.Tracks[2].ID # 1

\* C5: when the payload Decode can see ends inside a track record, Decode never
\* succeeds: it returns a read error (EOF, unexpected EOF or the I/O error) and no
\* Pattern.
C5_TruncatedRecordFails ==
    (ValidHeader /\ ~RefParse(Region).ok) =>
        /\ pc # "Done"
        /\ pc = "Failed" => (ret.p = NilPattern /\ ret.err \in ReadErrors)

C5_Witness ==
    /\ pc = "Failed"
    /\ ValidHeader
    /\ ~RefParse(Region).ok
    /\ Len(p.Tracks) >= 1
    /\ PayloadTaken > WireLen(p.Tracks, Len(p.Tracks)) + IdLen + 1
    /\ ret.err = "ErrUnexpectedEOF"
    /\ ret.p = NilPattern

\* the read of a track id is about to find the end with no byte to take: the limit
\* is used up, or the stream has ended
IdReadAtCleanEnd ==
    /\ pc = "ReadingID"
    /\ \/ Int64Negative(er.N) \/ er.N = Int64Zero
       \/ off = Len(stream) /\ endErr = "EOF"

\* C6: a track-id read that finds the end with zero bytes consumed ends Decode with
\* the Pattern holding all tracks appended so far and a nil error; Decode reports
\* success in no other way; an id read that ends otherwise without a whole id is
\* an error with no Pattern.
C6_CleanEndOnly ==
    [][ /\ IdReadAtCleanEnd =>
              (pc' = "Done" /\ ret' = [p |-> p, err |-> "nil"] /\ off' = off)
        /\ pc' = "Done" =>
              (IdReadAtCleanEnd /\ off' = off /\ ret'.err = "nil" /\ ret'.p = p)
        /\ (pc = "ReadingID" /\ ~IdReadAtCleanEnd /\ pc' # "ReadingLength") =>
              (pc' = "Failed" /\ ret'.p = NilPattern
                 /\ ret'.err \in {"ErrUnexpectedEOF", "ErrIO"})
      ]_vars

C6_Witness ==
    /\ pc = "Done"
    /\ Len(ret.p.Tracks) >= 1
    /\ ret.err = "nil"
    /\ PayloadTaken = WireLen(ret.p.Tracks, Len(ret.p.Tracks))

\* C8 (as stated): with a valid header and total_size < 36, Decode never returns a
\* Pattern.
C8_NegativeRegionFails ==
    ( /\ ValidHeader
      /\ \/ SmallSizeField /\ DeclaredSize < SizeAdjust
         \/ DeclaredNegative ) =>
        pc # "Done"

\* C10: total_size is the signed big-endian value of bytes 6..13: for a small value
\* the limit left is that value minus 36 minus the payload taken, a size with the
\* sign bit set (and not wrapping) lets no payload byte be read, and a size whose
\* first byte is 1..127 is so large that only the stream's end stops the loop; each
\* track id is the little-endian value of the first 4 bytes of its record.
C10_ByteOrders ==
    /\ (er.limited /\ SmallSizeField /\ DeclaredSize >= SizeAdjust) =>
          /\ header.Size = <<0, 0, 0, DeclaredSize>>
          /\ er.N = <<0, 0, 0, DeclaredSize - SizeAdjust - PayloadTaken>>
    /\ (er.limited /\ DeclaredNegative /\ ~WrapsPositive) => off = PrefixLen
    /\ (er.limited /\ stream[7] \in 1..127 /\ pc = "Done") => off = Len(stream)
    /\ \A i \in 1..Len(p.Tracks) :
          LET o == PrefixLen + WireLen(p.Tracks, i - 1)
          IN  p.Tracks[i].ID = stream[o + 1] + 256 * stream[o + 2]
                                 + 65536 * stream[o + 3] + 16777216 * stream[o + 4]

C10_Witness ==
    /\ pc = "Done"
    /\ SmallSizeField
    /\ DeclaredSize > 255
    /\ Len(ret.p.Tracks) = 2
    /\ ret.p.Tracks[2].ID = 2130706690

----------------------------------------------------------------------------
\* C11: a second Decode over a stream delivering the same bytes (whole or in pieces
\* of at most 7 bytes) ends as the first did: the same return, success or the same error, the
\* same Pattern (version, tempo, the tracks in order with id, instrument and steps)
\* and the same number of bytes consumed.
C11_SameOutcome ==
    (first.done /\ pc \in {"Done", "Failed"}) =>
        /\ pc = first.pc
        /\ ret = first.ret
        /\ off = first.off

C11_Witness ==
    /\ first.done
    /\ chunk = 7
    /\ pc = "Done"
    /\ Len(ret.p.Tracks) = 2
    /\ ret = first.ret

----------------------------------------------------------------------------
(* The track loop seen as the state machine of the design: a position of the loop
   where an error is latched does no read and no append, and is Failed already;
   the check after the steps read belongs to ReadingSteps, whose move to ReadingID
   appends the track. *)
TrackState ==
    IF pc \in {"ReadHeader", "ReadTempo", "CheckHeader"} THEN "Header"
    ELSE IF pc \in {"Done", "Failed"} THEN pc
    ELSE IF er.err # "nil" THEN "Failed"
    ELSE IF pc = "CheckTrack" THEN "ReadingSteps"
    ELSE pc

\* C12: the loop starts in ReadingID; a successful read moves ReadingID ->
\* ReadingLength -> ReadingName -> ReadingSteps -> ReadingID (taking the bytes of its
\* field) and a track is appended only on the last of these moves; Done is entered
\* only from ReadingID, with no byte taken and the end reported; a failed read
\* leads to Failed, which keeps the error and returns it; after Done or Failed
\* no byte is read and no track appended.
C12_TrackStateMachine ==
    [][ LET a == TrackState
            b == TrackState'
        IN  /\ a = "Header" => b \in {"Header", "ReadingID", "Failed"}
            /\ a = "ReadingID" =>
                  \/ b = "ReadingLength" /\ off' = off + IdLen
                  \/ b = "Done" /\ off' = off /\ er'.err = "EOF"
                  \/ b = "Failed" /\ off' < off + IdLen
            /\ a = "ReadingLength" =>
                  \/ b = "ReadingName" /\ off' = off + 1
                  \/ b = "Failed" /\ off' = off
            /\ a = "ReadingName" =>
                  \/ b = "ReadingSteps" /\ off' = off + len
                  \/ b = "Failed" /\ off' < off + len
            /\ a = "ReadingSteps" =>
                  \/ b = "ReadingSteps" /\ pc = "ReadingSteps" /\ off' = off + StepsLen
                  \/ b = "ReadingID" /\ pc = "CheckTrack" /\ off' = off
                        /\ Len(p'.Tracks) = Len(p.Tracks) + 1
                  \/ b = "Failed" /\ pc = "ReadingSteps" /\ off' < off + StepsLen
            /\ b = "Done" => a = "ReadingID"
            /\ p'.Tracks # p.Tracks => (a = "ReadingSteps" /\ b = "ReadingID")
            /\ a = "Done" => FALSE
            /\ a = "Failed" =>
                  /\ pc # "Failed"
                  /\ b = "Failed"
                  /\ off' = off
                  /\ p' = p
                  /\ er'.err = er.err
                  /\ pc' = "Failed" => (ret'.err = er.err /\ ret'.p = NilPattern)
      ]_vars

C12_Witness ==
    /\ pc = "ReadingSteps"
    /\ TrackState = "Failed"
    /\ er.err = "EOF"
    /\ Len(p.Tracks) = 1

\* the decoder that returns at the first failed read, run on the whole stream:
\* what it returns and the number of bytes it has consumed
RECURSIVE EarlyLoop(_, _, _)
EarlyLoop(r, o, pat) ==
    LET i == ReadFull(r, o, IdLen)
        r1 == [r EXCEPT !.N = i.N]
        l == ReadFull(r1, o + i.n, 1)
        r2 == [r EXCEPT !.N = l.N]
        n == ReadFull(r2, o + i.n + l.n, l.data[1])
        r3 == [r EXCEPT !.N = n.N]
        s == ReadFull(r3, o + i.n + l.n + n.n, StepsLen)
        r4 == [r EXCEPT !.N = s.N]
    IN  IF i.err = "EOF" THEN [ret |-> [p |-> pat, err |-> "nil"], off |-> o + i.n]
        ELSE IF i.err # "nil" THEN [ret |-> [p |-> NilPattern, err |-> i.err], off |-> o + i.n]
        ELSE IF l.err # "nil"
             THEN [ret |-> [p |-> NilPattern, err |-> l.err], off |-> o + i.n + l.n]
        ELSE IF n.err # "nil"
             THEN [ret |-> [p |-> NilPattern, err |-> n.err], off |-> o + i.n + l.n + n.n]
        ELSE IF s.err # "nil"
             THEN [ret |-> [p |-> NilPattern, err |-> s.err],
                   off |-> o + i.n + l.n + n.n + s.n]
        ELSE EarlyLoop(r4, o + i.n + l.n + n.n + s.n,
                       [pat EXCEPT !.Tracks =
                           Append(@, [ID |-> LittleEndianUint32(i.data),
                                      Instrument |-> n.data, Steps |-> s.data])])

EarlyDecode ==
    LET r0 == [limited |-> FALSE, N |-> Int64Zero]
        h == ReadFull(r0, 0, HeaderLen)
        t == ReadFull(r0, h.n, TempoLen)
    IN  IF h.err # "nil" THEN [ret |-> [p |-> NilPattern, err |-> h.err], off |-> h.n]
        ELSE IF t.err # "nil"
             THEN [ret |-> [p |-> NilPattern, err |-> t.err], off |-> h.n + t.n]
        ELSE IF SubSeq(h.data, 1, 6) # SPLICE
             THEN [ret |-> [p |-> NilPattern, err |-> "InvalidHeader"], off |-> h.n + t.n]
        ELSE EarlyLoop([limited |-> TRUE,
                        N |-> Int64Sub(BigEndianInt64(SubSeq(h.data, 7, 14)), SizeAdjust)],
                       h.n + t.n,
                       [nil |-> FALSE,
                        Version |-> TrimRight(SubSeq(h.data, 15, HeaderLen), 0),
                        Tempo |-> LittleEndianFloat32(t.data),
                        Tracks |-> <<>>])

\* C13: once a read through the errReader has failed, every later step takes no byte
\* from the stream and keeps that first error; and what Decode returns, with the
\* number of bytes it has consumed, is what the decoder returning at the first
\* failed read gives on the same stream.
C13_LatchIsEarlyReturn ==
    [][ /\ er.err # "nil" => (off' = off /\ er'.err = er.err)
        /\ pc' \in {"Done", "Failed"} =>
              (ret' = EarlyDecode.ret /\ off' = EarlyDecode.off)
      ]_vars

C13_Witness ==
    /\ pc = "Failed"
    /\ ret.err = "EOF"
    /\ Len(p.Tracks) = 1
    /\ PayloadTaken = WireLen(p.Tracks, 1) + IdLen
    /\ ret = EarlyDecode.ret

\* the payload bytes of the stream, all of them
StreamPayload == SubSeq(stream, PrefixLen + 1, Len(stream))

\* the declared region lies within the stream and ends inside a track record
RegionMisaligned ==
    /\ ValidHeader
    /\ SmallSizeField
    /\ DeclaredSize >= SizeAdjust
    /\ PayloadAvail >= DeclaredSize - SizeAdjust
    /\ ~RefParse(Region).ok

\* C14: when total_size - 36 >= 0 ends inside a track record, Decode never succeeds
\* and never reads past the ceiling: it returns EOF or unexpected EOF and no
\* Pattern, also when the stream holds the rest of the record and more records.
C14_MisalignedRegionFails ==
    RegionMisaligned =>
        /\ pc # "Done"
        /\ PayloadTaken <= DeclaredSize - SizeAdjust
        /\ pc = "Failed" =>
              (ret.p = NilPattern /\ ret.err \in {"EOF", "ErrUnexpectedEOF"})

C14_Witness ==
    /\ pc = "Failed"
    /\ RegionMisaligned
    /\ RefParse(StreamPayload).ok
    /\ Len(RefParse(StreamPayload).tracks) = 2
    /\ Len(p.Tracks) = 1
    /\ ret.p = NilPattern

\* every track of the Pattern has 16 step bytes and an instrument whose length is
\* the byte after the track's id on the wire
TrackShapes ==
    \A i \in 1..Len(p.Tracks) :
        LET o == PrefixLen + WireLen(p.Tracks, i - 1)
            t == p.Tracks[i]
        IN  /\ Len(t.Steps) = StepsLen
            /\ Len(t.Instrument) = stream[o + IdLen + 1]
            /\ Len(t.Instrument) \in 0..255

\* C15: after every step each track of the Pattern has exactly 16 step bytes and an
\* instrument of exactly name_len bytes, 0 <= name_len <= 255, name_len the byte
\* after its id; the tracks already appended are left as they are; the Pattern
\* returned holds these tracks.
C15_TrackShape ==
    [][ /\ TrackShapes'
        /\ IsPrefix(p.Tracks, p'.Tracks)
        /\ pc' = "Done" => ret'.p.Tracks = p'.Tracks
      ]_vars

C15_Witness ==
    /\ pc = "Done"
    /\ Len(ret.p.Tracks) = 2
    /\ Len(ret.p.Tracks[1].Instrument) = 1
    /\ Len(ret.p.Tracks[2].Instrument) = 0
    /\ Len(ret.p.Tracks[2].Steps) = StepsLen

\* C16: when the stream ends with EOF at a record boundary before total_size - 36
\* payload bytes were supplied, Decode does not fail and returns the tracks of the
\* records the stream holds; and whenever Decode succeeds, the payload it could see
\* (the declared region cut at the stream's end) is whole records and the tracks
\* returned are as many.
C16_StreamEndIsSuccess ==
    /\ ( /\ ValidHeader
         /\ SmallSizeField
         /\ DeclaredSize >= SizeAdjust
         /\ PayloadAvail < DeclaredSize - SizeAdjust
         /\ endErr = "EOF"
         /\ RefParse(StreamPayload).ok ) =>
           /\ pc # "Failed"
           /\ pc = "Done" =>
                 (ret.err = "nil" /\ ret.p.Tracks = RefParse(StreamPayload).tracks)
    /\ pc = "Done" =>
           /\ RefParse(Region).ok
           /\ Len(ret.p.Tracks) = Len(RefParse(Region).tracks)

C16_Witness ==
    /\ pc = "Done"
    /\ SmallSizeField
    /\ PayloadAvail < DeclaredSize - SizeAdjust
    /\ Len(ret.p.Tracks) = 1
    /\ off = Len(stream)

\* how far Decode is from returning: the bytes left in the stream, then the
\* statements left in the current turn of the loop
Rank ==
    CASE pc = "ReadHeader" -> 8
      [] pc = "ReadTempo" -> 7
      [] pc = "CheckHeader" -> 6
      [] pc = "ReadingLength" -> 5
      [] pc = "ReadingName" -> 4
      [] pc = "ReadingSteps" -> 3
      [] pc = "CheckTrack" -> 2
      [] pc = "ReadingID" -> 1
      [] OTHER -> 0

Measure == 2 * (Len(stream) - off) + Rank

\* some statement of Decode can be run: the guard of each action is its position only
CanStep ==
    pc \in {"ReadHeader", "ReadTempo", "CheckHeader", "ReadingID", "ReadingLength",
            "ReadingName", "ReadingSteps", "CheckTrack"}

\* C17: Decode returns in the end, whatever the stream and total_size: until it has
\* returned a next statement can always be run, and every statement run lowers a
\* measure that never goes below zero; each turn of the loop that comes back to the
\* id read has taken the bytes of one whole record, at least 21, and appended one
\* track.
C17_Terminates ==
    /\ [](pc \notin {"Done", "Failed"} => CanStep)
    /\ [][Measure' < Measure /\ Measure' >= 0]_vars
    /\ [](pc = "ReadingID" =>
            /\ PayloadTaken = WireLen(p.Tracks, Len(p.Tracks))
            /\ PayloadTaken >= (IdLen + 1 + StepsLen) * Len(p.Tracks)
            /\ PayloadTaken <= PayloadAvail)

C17_Witness ==
    /\ pc = "Done"
    /\ Len(ret.p.Tracks) = 2
    /\ stream[7] = 127
    /\ PayloadTaken = PayloadAvail

====
